---- MODULE Spec2Model ----
(***************************************************************************)
(* Query-orchestration pipeline of the RAG chatbot: chat_endpoint,         *)
(* QueryService.process_query and the services it sequences (retrieval,    *)
(* sufficiency gate, generation, grounding check, confidence).             *)
(*                                                                         *)
(* Texts are sequences of one-character strings, so that len, strip,       *)
(* lower, split, substring search and f-string concatenation are computed  *)
(* on the characters.  Similarity scores are integers in hundredths        *)
(* (35 is 0.35); a confidence is the exact fraction num/den.               *)
(***************************************************************************)
EXTENDS Integers, Sequences, FiniteSets, TLC

(***************************************************************************)
(* Bounds of the model.                                                    *)
(***************************************************************************)
\* Largest number of hits the similarity search returns in the model
\* (the code asks for settings.retrieval_top_k hits).
MaxHits == 2

\* Length of the filler that makes the over-long query exceed MaxQueryLength.
LongPad == 1

\* Number of GET /health requests the service answers in the model.
MaxHealthRequests == 4

(***************************************************************************)
(* Program constants.                                                      *)
(***************************************************************************)
\* settings.max_query_length
MaxQueryLength == 1000
\* validate_context_sufficiency: minimum of the best similarity, hundredths
MinSimilarity == 35
\* validate_context_sufficiency: minimum total content length
MinContentLength == 50
\* validate_selection_context: minimum stripped length of the selection
MinSelectionLength == 5
\* _generate_response_with_context: boost added to the average similarity
ConfidenceBoost == 20

(***************************************************************************)
(* Python string primitives on sequences of characters.                    *)
(***************************************************************************)
WhiteSpace == {" ", "\n", "\t"}

UpperCase ==
    <<"A","B","C","D","E","F","G","H","I","J","K","L","M","N","O","P","Q","R","S","T","U","V",
      "W","X","Y","Z">>

LowerCase ==
    <<"a","b","c","d","e","f","g","h","i","j","k","l","m","n","o","p","q","r","s","t","u","v",
      "w","x","y","z">>

Digits == <<"0","1","2","3","4","5","6","7","8","9">>

Range(f) == {f[i] : i \in DOMAIN f}

SetMin(S) == CHOOSE x \in S : \A y \in S : x <= y

SetMax(S) == CHOOSE x \in S : \A y \in S : x >= y

UpperSet == Range(UpperCase)

LowerOf == [c \in UpperSet |-> LowerCase[CHOOSE i \in DOMAIN UpperCase : UpperCase[i] = c]]

\* str.lower() on one character
LowerChar(c) == IF c \in UpperSet THEN LowerOf[c] ELSE c

\* str.lower()
Lower(s) == [i \in 1..Len(s) |-> LowerChar(s[i])]

\* str.strip()
Strip(s) ==
    LET solid == {i \in 1..Len(s) : s[i] \notin WhiteSpace}
    IN  IF solid = {} THEN << >> ELSE SubSeq(s, SetMin(solid), SetMax(solid))

\* set(str.split()): the maximal runs of non-whitespace characters
WordSet(s) ==
    LET starts == {i \in 1..Len(s) :
                      /\ s[i] \notin WhiteSpace
                      /\ (i = 1 \/ s[i-1] \in WhiteSpace)}
        stop(i) == SetMin({j \in i..Len(s) : j = Len(s) \/ s[j+1] \in WhiteSpace})
    IN  {SubSeq(s, i, stop(i)) : i \in starts}

\* sub in s
Contains(s, sub) ==
    \E i \in 1..(Len(s) - Len(sub) + 1) : SubSeq(s, i, i + Len(sub) - 1) = sub

\* \w of the regular expressions
WordChars == Range(UpperCase) \cup Range(LowerCase) \cup Range(Digits) \cup {"_"}

IsWordChar(c) == c \in WordChars

\* re.sub(r'[^\w\s]', '', s)
RemovePunctuation(s) == SelectSeq(s, LAMBDA c : IsWordChar(c) \/ c \in WhiteSpace)

\* str(n) for an integer n
RECURSIVE NatStr(_)
NatStr(n) == IF n < 10 THEN <<Digits[n + 1]>> ELSE NatStr(n \div 10) \o <<Digits[(n % 10) + 1]>>

IntStr(n) == IF n < 0 THEN <<"-">> \o NatStr(0 - n) ELSE NatStr(n)

\* f"{x:.2f}" for a number x given in hundredths
Fmt2f(h) ==
    LET a == IF h < 0 THEN 0 - h ELSE h
    IN  (IF h < 0 THEN <<"-">> ELSE << >>) \o NatStr(a \div 100)
            \o <<".", Digits[((a \div 10) % 10) + 1], Digits[(a % 10) + 1]>>

\* n copies of the character c
Rep(c, n) == [i \in 1..n |-> c]

MsgGenerationError ==
    <<"I"," ","e","n","c","o","u","n","t","e","r","e","d"," ","a","n"," ","e","r","r","o","r",
      " ","w","h","i","l","e"," ","g","e","n","e","r","a","t","i","n","g"," ","a"," ","r","e",
      "s","p","o","n","s","e"," ","b","a","s","e","d"," ","o","n"," ","t","h","e"," ","b","o",
      "o","k"," ","c","o","n","t","e","n","t","."," ","E","r","r","o","r"," ","d","e","t","a",
      "i","l","s",":"," ">>

MsgMissingKey ==
    <<"O","p","e","n","R","o","u","t","e","r"," ","A","P","I"," ","K","e","y"," ","i","s"," ",
      "m","i","s","s","i","n","g","."," ","P","l","e","a","s","e"," ","s","e","t"," ","O","P",
      "E","N","R","O","U","T","E","R","_","A","P","I","_","K","E","Y"," ","i","n"," ",".","e",
      "n","v">>

MsgApiError ==
    <<"O","p","e","n","R","o","u","t","e","r"," ","A","P","I"," ","E","r","r","o","r",":"," ">>

MsgCannotAnswer ==
    <<"I"," ","c","a","n","n","o","t"," ","a","n","s","w","e","r"," ","t","h","i","s"," ","q",
      "u","e","s","t","i","o","n"," ","b","a","s","e","d"," ","o","n"," ","t","h","e"," ","a",
      "v","a","i","l","a","b","l","e"," ","b","o","o","k"," ","c","o","n","t","e","n","t",".",
      " ">>

MsgNoContext ==
    <<"N","o"," ","c","o","n","t","e","x","t"," ","r","e","t","r","i","e","v","e","d"," ","f",
      "o","r"," ","t","h","e"," ","q","u","e","r","y">>

MsgNoHighSimilarity ==
    <<"N","o"," ","h","i","g","h","-","s","i","m","i","l","a","r","i","t","y"," ","c","o","n",
      "t","e","n","t"," ","f","o","u","n","d"," ","(","h","i","g","h","e","s","t"," ","s","c",
      "o","r","e",":"," ">>

MsgInsufficientLength ==
    <<"I","n","s","u","f","f","i","c","i","e","n","t"," ","c","o","n","t","e","x","t"," ","l",
      "e","n","g","t","h",":"," ">>

MsgCharacters ==
    <<" ","c","h","a","r","a","c","t","e","r","s">>

MsgContextSufficient ==
    <<"C","o","n","t","e","x","t"," ","i","s"," ","s","u","f","f","i","c","i","e","n","t">>

MsgErrorOccurred ==
    <<"A","n"," ","e","r","r","o","r"," ","o","c","c","u","r","r","e","d"," ","w","h","i","l",
      "e"," ","p","r","o","c","e","s","s","i","n","g"," ","y","o","u","r"," ","r","e","q","u",
      "e","s","t",":"," ">>

MsgNoSelectedText ==
    <<"N","o"," ","s","e","l","e","c","t","e","d"," ","t","e","x","t"," ","p","r","o","v","i",
      "d","e","d"," ","f","o","r"," ","s","e","l","e","c","t","i","o","n","-","b","a","s","e",
      "d"," ","q","u","e","r","y",".">>

MsgSelectionNotEnough ==
    <<"T","h","e"," ","s","e","l","e","c","t","e","d"," ","t","e","x","t"," ","d","o","e","s",
      " ","n","o","t"," ","c","o","n","t","a","i","n"," ","e","n","o","u","g","h"," ","i","n",
      "f","o","r","m","a","t","i","o","n"," ","t","o"," ","a","n","s","w","e","r"," ","y","o",
      "u","r"," ","q","u","e","s","t","i","o","n","."," ">>

MsgSelectionTooShort ==
    <<"S","e","l","e","c","t","e","d"," ","t","e","x","t"," ","i","s"," ","t","o","o"," ","s",
      "h","o","r","t"," ","o","r"," ","e","m","p","t","y">>

MsgSelectionLowOverlap ==
    <<"S","e","l","e","c","t","i","o","n"," ","c","o","n","t","e","x","t"," ","i","s"," ","s",
      "u","f","f","i","c","i","e","n","t"," ","(","l","o","w",","," ","n","o","n","-","z","e",
      "r","o"," ","o","v","e","r","l","a","p",")">>

MsgSelectionBypassed ==
    <<"S","e","l","e","c","t","i","o","n"," ","c","o","n","t","e","x","t"," ","v","a","l","i",
      "d"," ","(","B","y","p","a","s","s","e","d"," ","s","t","r","i","c","t"," ","o","v","e",
      "r","l","a","p"," ","c","h","e","c","k",")">>

MsgSelectionSufficient ==
    <<"S","e","l","e","c","t","i","o","n"," ","c","o","n","t","e","x","t"," ","i","s"," ","s",
      "u","f","f","i","c","i","e","n","t">>

MsgNotGroundedBook ==
    <<"I"," ","c","a","n","n","o","t"," ","p","r","o","v","i","d","e"," ","a","n"," ","a","n",
      "s","w","e","r"," ","t","h","a","t"," ","i","s"," ","f","u","l","l","y"," ","g","r","o",
      "u","n","d","e","d"," ","i","n"," ","t","h","e"," ","b","o","o","k"," ","c","o","n","t",
      "e","n","t",".">>

MsgNotGroundedSelection ==
    <<"I"," ","c","a","n","n","o","t"," ","p","r","o","v","i","d","e"," ","a","n"," ","a","n",
      "s","w","e","r"," ","t","h","a","t"," ","i","s"," ","f","u","l","l","y"," ","g","r","o",
      "u","n","d","e","d"," ","i","n"," ","t","h","e"," ","s","e","l","e","c","t","e","d"," ",
      "t","e","x","t",".">>

MsgInvalidQueryType ==
    <<"I","n","v","a","l","i","d"," ","q","u","e","r","y"," ","t","y","p","e",":"," ">>

IndKnowledge ==
    <<"a","c","c","o","r","d","i","n","g"," ","t","o"," ","m","y"," ","k","n","o","w","l","e",
      "d","g","e">>

IndIKnow ==
    <<"i"," ","k","n","o","w"," ","t","h","a","t">>

IndGeneral ==
    <<"f","r","o","m"," ","g","e","n","e","r","a","l"," ","k","n","o","w","l","e","d","g","e">>

IndExperience ==
    <<"i","n"," ","m","y"," ","e","x","p","e","r","i","e","n","c","e">>

IndRecently ==
    <<"r","e","c","e","n","t","l","y">>

IndCurrently ==
    <<"c","u","r","r","e","n","t","l","y">>

IndToday ==
    <<"t","o","d","a","y">>

IndThisYear ==
    <<"t","h","i","s"," ","y","e","a","r">>

IndLatest ==
    <<"l","a","t","e","s","t">>

IndNewDev ==
    <<"n","e","w"," ","d","e","v","e","l","o","p","m","e","n","t","s">>

DescExternal ==
    <<"E","x","t","e","r","n","a","l"," ","k","n","o","w","l","e","d","g","e"," ","c","l","a",
      "i","m">>

DescPersonal ==
    <<"P","e","r","s","o","n","a","l"," ","k","n","o","w","l","e","d","g","e"," ","c","l","a",
      "i","m">>

DescGeneral ==
    <<"G","e","n","e","r","a","l"," ","k","n","o","w","l","e","d","g","e"," ","c","l","a","i",
      "m">>

DescExperience ==
    <<"P","e","r","s","o","n","a","l"," ","e","x","p","e","r","i","e","n","c","e"," ","c","l",
      "a","i","m">>

DescTime ==
    <<"T","i","m","e","-","s","e","n","s","i","t","i","v","e"," ","e","x","t","e","r","n","a",
      "l"," ","i","n","f","o">>

DescCurrent ==
    <<"C","u","r","r","e","n","t"," ","e","v","e","n","t","s"," ","c","l","a","i","m">>

DescRecent ==
    <<"R","e","c","e","n","t"," ","i","n","f","o","r","m","a","t","i","o","n"," ","c","l","a",
      "i","m">>

MsgNoRetrieved ==
    <<"N","o"," ","r","e","t","r","i","e","v","e","d"," ","c","o","n","t","e","n","t"," ","t",
      "o"," ","v","a","l","i","d","a","t","e"," ","a","g","a","i","n","s","t">>

MsgOverlapLow ==
    <<"C","o","n","t","e","n","t"," ","o","v","e","r","l","a","p"," ","t","o","o"," ","l","o",
      "w",":"," ">>

MsgScoreLow ==
    <<"G","r","o","u","n","d","i","n","g"," ","s","c","o","r","e"," ","t","o","o"," ","l","o",
      "w",":"," ">>

MsgQueryEmpty ==
    <<"Q","u","e","r","y"," ","c","a","n","n","o","t"," ","b","e"," ","e","m","p","t","y">>

MsgQueryTooLongA ==
    <<"Q","u","e","r","y"," ","e","x","c","e","e","d","s"," ","m","a","x","i","m","u","m"," ",
      "l","e","n","g","t","h"," ","o","f"," ">>

MsgInvalidType ==
    <<"I","n","v","a","l","i","d"," ","q","u","e","r","y"," ","t","y","p","e">>

MsgSelectionRequired ==
    <<"S","e","l","e","c","t","e","d"," ","t","e","x","t"," ","r","e","q","u","i","r","e","d",
      " ","f","o","r"," ","s","e","l","e","c","t","i","o","n","-","b","a","s","e","d"," ","q",
      "u","e","r","i","e","s">>

MsgInternal ==
    <<"I","n","t","e","r","n","a","l"," ","s","e","r","v","e","r"," ","e","r","r","o","r">>

DetailModel ==
    <<"m","o","d","e","l">>

TypeSummary ==
    <<"s","u","m","m","a","r","y">>

TypeSelection ==
    <<"s","e","l","e","c","t","i","o","n","_","b","a","s","e","d">>

DetailRefused ==
    <<"C","o","n","n","e","c","t","i","o","n"," ","r","e","f","u","s","e","d">>

ContentRos ==
    <<"r","o","s"," ","i","s"," ","a"," ","m","i","d","d","l","e","w","a","r","e",".">>

ContentRobot ==
    <<"A"," ","r","o","b","o","t"," ","i","s"," ","a"," ","h","u","m","a","n","o","i","d"," ",
      "m","a","c","h","i","n","e">>

RespGrounded ==
    <<" ","A"," ","r","o","b","o","t"," ","i","s"," ","a"," ","m","a","c","h","i","n","e"," ">>

RespMarker ==
    <<"T","o","d","a","y"," ","a"," ","r","o","b","o","t"," ","i","s"," ","a"," ","m","a","c",
      "h","i","n","e">>

RespUnrelated ==
    <<"I","t"," ","f","l","i","e","s">>

RespBlank ==
    <<" "," ">>

QueryRobot ==
    <<"W","h","a","t"," ","i","s"," ","a"," ","r","o","b","o","t","?">>

QueryExplain ==
    <<"E","x","p","l","a","i","n"," ","R","O","S"," ","2">>

QueryBlank ==
    <<" "," "," ">>

QueryPunct ==
    <<"?","!">>

SelRos ==
    <<"R","O","S","2"," ","i","s"," ","a"," ","m","i","d","d","l","e","w","a","r","e",".">>

SelShort ==
    <<"a","b","c">>

SelPadded ==
    <<" "," ","a","b"," "," ">>

DetailTimeout ==
    <<"t","i","m","e","o","u","t">>

DetailChoices ==
    <<"'","c","h","o","i","c","e","s","'">>

BodyBusy ==
    <<"b","u","s","y">>

TypeFullBook ==
    <<"f","u","l","l","_","b","o","o","k">>

(***************************************************************************)
(* Numbers: a fraction num/den with den > 0 stands for a Python float.     *)
(***************************************************************************)
Frac(n, d) == [num |-> n, den |-> d]

Zero == Frac(0, 1)

\* a < h/100
FracBelow(a, h) == a.num * 100 < h * a.den

\* f"{a:.2f}" of a fraction (nearest hundredth)
FmtFrac(a) == Fmt2f((200 * a.num + a.den) \div (2 * a.den))

(***************************************************************************)
(* Optional[str]: None is the empty tuple, a present text t is <<t>>.      *)
(***************************************************************************)
None == << >>

Some(t) == <<t>>

\* "not x" of Python for an Optional[str]
Falsy(opt) == opt = None \/ Len(opt[1]) = 0

(***************************************************************************)
(* ValidationService                                                       *)
(***************************************************************************)
Indicators ==
    << <<IndKnowledge, DescExternal>>, <<IndIKnow, DescPersonal>>,
       <<IndGeneral, DescGeneral>>, <<IndExperience, DescExperience>>,
       <<IndRecently, DescTime>>, <<IndCurrently, DescCurrent>>,
       <<IndToday, DescCurrent>>, <<IndThisYear, DescCurrent>>,
       <<IndLatest, DescRecent>>, <<IndNewDev, DescRecent>> >>

\* ValidationService._find_external_indicators
FindExternalIndicators(response) ==
    LET response_lower == Lower(response)
        found == SelectSeq(Indicators, LAMBDA p : Contains(response_lower, p[1]))
    IN  [i \in 1..Len(found) |-> found[i][2] \o <<":", " ", "'">> \o found[i][1] \o <<"'">>]

\* " ".join(texts)
RECURSIVE JoinSpace(_)
JoinSpace(texts) ==
    IF Len(texts) = 0 THEN << >>
    ELSE IF Len(texts) = 1 THEN texts[1]
    ELSE texts[1] \o <<" ">> \o JoinSpace(Tail(texts))

\* ValidationService._calculate_content_overlap
CalculateContentOverlap(response, retrieved_chunks) ==
    IF Strip(response) = << >> THEN Zero
    ELSE LET response_words == WordSet(Lower(response))
             all_chunk_content ==
                 JoinSpace([i \in 1..Len(retrieved_chunks) |-> Lower(retrieved_chunks[i].content)])
             chunk_words == WordSet(all_chunk_content)
             overlap == response_words \cap chunk_words
         IN  IF response_words = {} THEN Zero
             ELSE Frac(Cardinality(overlap), Cardinality(response_words))

\* the grounding score with a penalty of 0.1 for each marker
CalculateGroundingScoreLightPenalty(response, retrieved_chunks, external_indicators) ==
    LET content_overlap == CalculateContentOverlap(response, retrieved_chunks)
        raw == 10 * content_overlap.num - Len(external_indicators) * content_overlap.den
        floored == IF raw < 0 THEN 0 ELSE raw
        capped == IF floored > 10 * content_overlap.den THEN 10 * content_overlap.den ELSE floored
    IN  Frac(capped, 10 * content_overlap.den)

\* ValidationService._calculate_grounding_score
CalculateGroundingScore(response, retrieved_chunks, external_indicators) ==
    LET content_overlap == CalculateContentOverlap(response, retrieved_chunks)
        \* content_overlap - len(external_indicators) * 0.3, in tenths of 1/den
        raw == 10 * content_overlap.num - 3 * Len(external_indicators) * content_overlap.den
        floored == IF raw < 0 THEN 0 ELSE raw
        capped == IF floored > 10 * content_overlap.den THEN 10 * content_overlap.den ELSE floored
    IN  Frac(capped, 10 * content_overlap.den)

\* validate_response_grounding deciding on the two thresholds alone
ValidateResponseGroundingScoreOnly(response, retrieved_chunks) ==
    IF Len(retrieved_chunks) = 0
    THEN <<FALSE, [grounding_score |-> Zero, content_overlap |-> Zero,
                   external_indicators |-> << >>, validation_passed |-> FALSE,
                   issues |-> <<MsgNoRetrieved>>]>>
    ELSE LET external_indicators == FindExternalIndicators(response)
             content_overlap == CalculateContentOverlap(response, retrieved_chunks)
             grounding_score ==
                 CalculateGroundingScore(response, retrieved_chunks, external_indicators)
             overlap_low == FracBelow(content_overlap, 30)
             score_low == FracBelow(grounding_score, 70)
             passed == ~overlap_low /\ ~score_low
             issues ==
                 external_indicators
                   \o (IF overlap_low THEN <<MsgOverlapLow \o FmtFrac(content_overlap)>>
                       ELSE << >>)
                   \o (IF score_low THEN <<MsgScoreLow \o FmtFrac(grounding_score)>>
                       ELSE << >>)
         IN  <<passed, [grounding_score |-> grounding_score,
                        content_overlap |-> content_overlap,
                        external_indicators |-> external_indicators,
                        validation_passed |-> passed,
                        issues |-> issues]>>

\* ValidationService.validate_response_grounding: <<is_valid, validation_details>>
ValidateResponseGrounding(response, retrieved_chunks) ==
    IF Len(retrieved_chunks) = 0
    THEN <<FALSE, [grounding_score |-> Zero, content_overlap |-> Zero,
                   external_indicators |-> << >>, validation_passed |-> FALSE,
                   issues |-> <<MsgNoRetrieved>>]>>
    ELSE LET external_indicators == FindExternalIndicators(response)
             content_overlap == CalculateContentOverlap(response, retrieved_chunks)
             grounding_score ==
                 CalculateGroundingScore(response, retrieved_chunks, external_indicators)
             overlap_low == FracBelow(content_overlap, 30)
             score_low == FracBelow(grounding_score, 70)
             passed == Len(external_indicators) = 0 /\ ~overlap_low /\ ~score_low
             issues ==
                 external_indicators
                   \o (IF overlap_low THEN <<MsgOverlapLow \o FmtFrac(content_overlap)>>
                       ELSE << >>)
                   \o (IF score_low THEN <<MsgScoreLow \o FmtFrac(grounding_score)>>
                       ELSE << >>)
         IN  <<passed, [grounding_score |-> grounding_score,
                        content_overlap |-> content_overlap,
                        external_indicators |-> external_indicators,
                        validation_passed |-> passed,
                        issues |-> issues]>>

\* max(c.similarity_score for c in retrieved_chunks)
MaxScore(retrieved_chunks) ==
    SetMax({retrieved_chunks[i].similarity_score : i \in 1..Len(retrieved_chunks)})

\* sum(len(chunk.content) for chunk in retrieved_chunks)
RECURSIVE TotalContentLength(_)
TotalContentLength(chunks) ==
    IF Len(chunks) = 0 THEN 0 ELSE Len(chunks[1].content) + TotalContentLength(Tail(chunks))

\* sum(chunk.similarity_score for chunk in retrieved_chunks)
RECURSIVE SumSimilarity(_)
SumSimilarity(chunks) ==
    IF Len(chunks) = 0 THEN 0 ELSE chunks[1].similarity_score + SumSimilarity(Tail(chunks))

\* the threshold comparison with a lower threshold (0.30)
SimilarityTooLowLoose(current_max_score) == current_max_score < 30

\* the threshold comparison with <= for <
SimilarityTooLowInclusive(current_max_score) == current_max_score <= MinSimilarity

\* the comparison of the best similarity with the threshold
SimilarityTooLow(current_max_score) == current_max_score < MinSimilarity

\* the length comparison off by one
ContentTooShortOffByOne(total_content_length) == total_content_length < MinContentLength - 1

\* the comparison of the total content length with the threshold
ContentTooShort(total_content_length) == total_content_length < MinContentLength

\* validate_context_sufficiency with the length rule ahead of the similarity rule
ValidateContextSufficiencyLengthFirst(query, retrieved_chunks) ==
    IF Len(retrieved_chunks) = 0 THEN <<FALSE, MsgNoContext>>
    ELSE LET current_max_score == MaxScore(retrieved_chunks)
             total_content_length == TotalContentLength(retrieved_chunks)
         IN  IF ContentTooShort(total_content_length)
             THEN <<FALSE, MsgInsufficientLength \o IntStr(total_content_length)
                               \o MsgCharacters>>
             ELSE IF SimilarityTooLow(current_max_score)
             THEN <<FALSE, MsgNoHighSimilarity \o Fmt2f(current_max_score) \o <<")">> >>
             ELSE <<TRUE, MsgContextSufficient>>

\* ValidationService.validate_context_sufficiency: <<is_sufficient, reason>>
ValidateContextSufficiency(query, retrieved_chunks) ==
    IF Len(retrieved_chunks) = 0 THEN <<FALSE, MsgNoContext>>
    ELSE LET current_max_score == MaxScore(retrieved_chunks)
             total_content_length == TotalContentLength(retrieved_chunks)
         IN  IF SimilarityTooLow(current_max_score)
             THEN <<FALSE, MsgNoHighSimilarity \o Fmt2f(current_max_score) \o <<")">> >>
             ELSE IF ContentTooShort(total_content_length)
             THEN <<FALSE, MsgInsufficientLength \o IntStr(total_content_length)
                               \o MsgCharacters>>
             ELSE <<TRUE, MsgContextSufficient>>

\* normalize_tokens of validate_selection_context
NormalizeTokens(text) == WordSet(RemovePunctuation(Lower(text)))

\* validate_selection_context with the overlap check as a gate: no shared token, no answer
ValidateSelectionContextStrict(query, selected_text) ==
    IF Falsy(selected_text) \/ Len(Strip(selected_text[1])) < MinSelectionLength
    THEN <<FALSE, MsgSelectionTooShort>>
    ELSE IF NormalizeTokens(query) \cap NormalizeTokens(selected_text[1]) = {}
    THEN <<FALSE, MsgSelectionLowOverlap>>
    ELSE <<TRUE, MsgSelectionSufficient>>

\* validate_selection_context measuring the selection without stripping it
ValidateSelectionContextUnstripped(query, selected_text) ==
    IF Falsy(selected_text) \/ Len(selected_text[1]) < MinSelectionLength
    THEN <<FALSE, MsgSelectionTooShort>>
    ELSE LET query_tokens == NormalizeTokens(query)
             selected_tokens == NormalizeTokens(selected_text[1])
             overlap == query_tokens \cap selected_tokens
             denominator == IF Cardinality(query_tokens) > 1 THEN Cardinality(query_tokens) ELSE 1
             overlap_ratio == Frac(Cardinality(overlap), denominator)
         IN  IF FracBelow(overlap_ratio, 10)
             THEN IF Cardinality(overlap) > 0
                  THEN <<TRUE, MsgSelectionLowOverlap>>
                  ELSE <<TRUE, MsgSelectionBypassed>>
             ELSE <<TRUE, MsgSelectionSufficient>>

\* ValidationService.validate_selection_context: <<is_sufficient, reason>>
ValidateSelectionContext(query, selected_text) ==
    IF Falsy(selected_text) \/ Len(Strip(selected_text[1])) < MinSelectionLength
    THEN <<FALSE, MsgSelectionTooShort>>
    ELSE LET query_tokens == NormalizeTokens(query)
             selected_tokens == NormalizeTokens(selected_text[1])
             overlap == query_tokens \cap selected_tokens
             denominator == IF Cardinality(query_tokens) > 1 THEN Cardinality(query_tokens) ELSE 1
             overlap_ratio == Frac(Cardinality(overlap), denominator)
         IN  IF FracBelow(overlap_ratio, 10)
             THEN IF Cardinality(overlap) > 0
                  THEN <<TRUE, MsgSelectionLowOverlap>>
                  ELSE <<TRUE, MsgSelectionBypassed>>
             ELSE <<TRUE, MsgSelectionSufficient>>

(***************************************************************************)
(* OpenRouterService and the generation step                               *)
(***************************************************************************)
\* the result of a call that either returns a text or raises: str(e) is in text
Returned(t) == [ok |-> TRUE, text |-> t]

Raised(msg) == [ok |-> FALSE, text |-> msg]

\* OpenRouterService.generate_content; reply is what the HTTP exchange does
GenerateContent(api_key, reply) ==
    IF Len(api_key) = 0 THEN Raised(MsgMissingKey)
    ELSE IF reply.kind = "transport" THEN Raised(reply.text)
    ELSE IF reply.code # 200
    THEN Raised(MsgApiError \o IntStr(reply.code) \o <<" ", "-", " ">> \o reply.text)
    ELSE IF reply.kind = "malformed" THEN Raised(DetailChoices)
    ELSE Returned(reply.text)

\* avg_similarity + 0.2 without the cap
BoostedConfidenceUncapped(retrieved_chunks) ==
    Frac(SumSimilarity(retrieved_chunks) + ConfidenceBoost * Len(retrieved_chunks),
         100 * Len(retrieved_chunks))

\* min(1.0, avg_similarity + 0.2)
BoostedConfidence(retrieved_chunks) ==
    LET n == Len(retrieved_chunks)
        boosted == SumSimilarity(retrieved_chunks) + ConfidenceBoost * n
    IN  IF boosted >= 100 * n THEN Frac(1, 1) ELSE Frac(boosted, 100 * n)

\* the except branch of _generate_response_with_context
GenerationFailed(error_msg) == <<MsgGenerationError \o error_msg, Zero>>

\* QueryService._generate_response_with_context: <<response, confidence>>
GenerateResponseWithContext(retrieved_chunks, generated) ==
    IF generated.ok
    THEN <<Strip(generated.text),
           IF Len(retrieved_chunks) > 0 THEN BoostedConfidence(retrieved_chunks) ELSE Zero>>
    ELSE GenerationFailed(generated.text)

(***************************************************************************)
(* RetrievalService                                                        *)
(***************************************************************************)
\* the values uuid.uuid4() may return
Uuid4Values == {"uuid4-a", "uuid4-b"}

\* identifiers that are not the text of a UUID
MalformedIds == {"not-a-uuid", "physical_ai_course"}

\* uuid.uuid5(uuid.NAMESPACE_DNS, name): the same UUID for the same name
Uuid5(name) ==
    IF name = "physical_ai_course" THEN "uuid5-physical_ai_course" ELSE "uuid5-not-a-uuid"

\* uuid.UUID(str(value)) succeeds
IsUuid(value) ==
    value \in {"uuid-1", "uuid-2"} \cup Uuid4Values \cup {Uuid5(name) : name \in MalformedIds}

\* the body of the mapping loop of retrieve_relevant_chunks: the chunks one hit yields
\* (none when building the chunk raises).  A payload is a record of the keys it carries;
\* result.uuid4 holds the values uuid.uuid4() returns while the hit is processed, for the
\* chunk_id and for the document_id, and is read only when the identifier is missing.
MapHit(result) ==
    LET payload == result.payload
        Get(key, default) == IF key \in DOMAIN payload THEN payload[key] ELSE default
        chunk_id_val ==
            IF Get("chunk_id", "") = "" THEN result.uuid4[1] ELSE payload.chunk_id
        document_id_val ==
            IF Get("document_id", "") = "" THEN result.uuid4[2] ELSE payload.document_id
        document_id_obj ==
            IF IsUuid(document_id_val) THEN document_id_val ELSE Uuid5(document_id_val)
    IN  IF ~IsUuid(chunk_id_val) THEN << >>
        ELSE << [chunk_id |-> chunk_id_val,
                 document_id |-> document_id_obj,
                 content |-> Get("content", << >>),
                 similarity_score |-> result.score,
                 source_path |-> Get("source_path", ""),
                 chunk_index |-> Get("chunk_index", 0)] >>

\* the mapping loop giving up at the first hit it cannot map
RECURSIVE MapHitsUntilFailure(_)
MapHitsUntilFailure(points) ==
    IF Len(points) = 0 \/ MapHit(points[1]) = << >> THEN << >>
    ELSE MapHit(points[1]) \o MapHitsUntilFailure(Tail(points))

\* the mapping loop building its list back to front
RECURSIVE MapHitsReversed(_)
MapHitsReversed(points) ==
    IF Len(points) = 0 THEN << >> ELSE MapHitsReversed(Tail(points)) \o MapHit(points[1])

\* the mapping loop of retrieve_relevant_chunks
RECURSIVE MapHits(_)
MapHits(points) ==
    IF Len(points) = 0 THEN << >> ELSE MapHit(points[1]) \o MapHits(Tail(points))

\* the synthetic chunk without its marker: source_path left at the payload default
SelectionChunksUnmarked(selected_text) ==
    << [chunk_id |-> "uuid4", document_id |-> "uuid4", content |-> selected_text,
        similarity_score |-> 100, source_path |-> "", chunk_index |-> 0] >>

\* RetrievalService.retrieve_from_selected_text, after the embedding
SelectionChunks(selected_text) ==
    << [chunk_id |-> "uuid4", document_id |-> "uuid4", content |-> selected_text,
        similarity_score |-> 100, source_path |-> "user_selection", chunk_index |-> 0] >>

(***************************************************************************)
(* Responses                                                               *)
(***************************************************************************)
NoResult ==
    [kind |-> "none", code |-> 0, response |-> << >>, status |-> "none",
     sources |-> << >>, confidence |-> Zero]

\* QueryResponse(response=..., status=..., sources=..., confidence=...)
QueryResponse(response, status, sources, confidence) ==
    [kind |-> "response", code |-> 200, response |-> response, status |-> status,
     sources |-> sources, confidence |-> confidence]

\* raise HTTPException(status_code=..., detail=...)
HTTPException(status_code, detail) ==
    [kind |-> "http_error", code |-> status_code, response |-> detail, status |-> "none",
     sources |-> << >>, confidence |-> Zero]

\* an exception that leaves the call, for a caller that is not chat_endpoint
Propagated(msg) ==
    [kind |-> "exception", code |-> 0, response |-> msg, status |-> "none",
     sources |-> << >>, confidence |-> Zero]

\* the except branch of process_query
ErrorResponse(msg) == QueryResponse(MsgErrorOccurred \o msg, "error", << >>, Zero)

(***************************************************************************)
(* Inputs of the model                                                     *)
(***************************************************************************)
\* a chunk content of 50 characters: as long as the sufficiency gate asks for
ContentLong == ContentRobot \o <<" ">> \o Rep("x", 20)

\* chunk contents of 20, 29 and 50 characters

Contents == {ContentRos, ContentRobot, ContentLong}

\* similarity scores the backend reports (cosine similarity, hundredths)
Scores == {-100, 34, 35, 90, 100}

Payloads ==
    [chunk_id : {"uuid-1", "not-a-uuid"}, document_id : {"uuid-2"}, content : Contents,
     source_path : {"book.md"}, chunk_index : {0}]

Hits == [score : Scores, payload : Payloads]

\* the backend ranks its hits by score, best first
HitLists ==
    UNION { {h \in [1..n -> Hits] : \A i \in 1..(n - 1) : h[i].score >= h[i+1].score}
            : n \in 0..MaxHits }

\* texts the generator may return
Responses == {RespGrounded, RespMarker, RespUnrelated, RespBlank}

\* what the HTTP exchange of generate_content may do
GeneratorReplies ==
    {[kind |-> "transport", code |-> 0, text |-> DetailTimeout],
     [kind |-> "body", code |-> 500, text |-> BodyBusy],
     [kind |-> "malformed", code |-> 200, text |-> << >>]}
      \cup {[kind |-> "body", code |-> 200, text |-> r] : r \in Responses}

\* settings.openrouter_api_key
ApiKeys == {<< >>, <<"k">>}

QueryLong == Rep("x", MaxQueryLength + LongPad)

Selections ==
    {None, Some(<< >>), Some(SelShort), Some(SelPadded), Some(SelRos), Some(ContentRobot)}

Request(query, query_type, selected_text) ==
    [query |-> query, query_type |-> query_type, selected_text |-> selected_text]

\* requests posted to /chat
EndpointRequests ==
    {Request(q, "full_book", None) : q \in {QueryRobot, << >>, QueryBlank, QueryLong}}
      \cup {Request(q, "selection_based", s) : q \in {QueryRobot, QueryExplain}, s \in Selections}
      \cup {Request(QueryPunct, "selection_based", s) : s \in {Some(SelPadded), Some(SelRos)}}
      \cup {Request(QueryRobot, "summary", None)}

\* requests handed to process_query by a caller that does not validate them
DirectRequests ==
    {Request(QueryExplain, "selection_based", s) : s \in {None, Some(<< >>), Some(SelRos)}}
      \cup {Request(QueryRobot, "summary", None)}

\* str(query_type)
TypeText(query_type) ==
    IF query_type = "summary" THEN TypeSummary
    ELSE IF query_type = "full_book" THEN TypeFullBook
    ELSE TypeSelection

(***************************************************************************)
(* State                                                                   *)
(***************************************************************************)
VARIABLES
    entry,             \* "endpoint": POST /chat; "direct": a call of process_query
    request,           \* the QueryRequest
    pc,                \* where the request is
    stages,            \* the pipeline calls process_query made so far, in order
    backend,           \* what the similarity-search backend did each time it was contacted
    search_results,    \* the points query_points returned
    retrieved_chunks,  \* the evidence
    sufficiency,       \* <<is_sufficient, reason>>
    generated,         \* what generate_content did
    response,          \* the text _generate_response_with_context returned
    confidence,        \* the confidence _generate_response_with_context returned
    grounding,         \* <<is_grounded, validation_details>>
    result,            \* what the caller gets
    others             \* the frames of the requests suspended while this one runs

vars ==
    <<entry, request, pc, stages, backend, search_results, retrieved_chunks, sufficiency,
      generated, response, confidence, grounding, result, others>>

NoDetails ==
    [grounding_score |-> Zero, content_overlap |-> Zero, external_indicators |-> << >>,
     validation_passed |-> TRUE, issues |-> << >>]

Init ==
    /\ \/ entry = "endpoint" /\ request \in EndpointRequests /\ pc = "received"
       \/ entry = "direct" /\ request \in DirectRequests /\ pc = "construct"
    /\ stages = << >>
    /\ backend = << >>
    /\ search_results = << >>
    /\ retrieved_chunks = << >>
    /\ sufficiency = <<FALSE, << >> >>
    /\ generated = Raised(<< >>)
    /\ response = << >>
    /\ confidence = Zero
    /\ grounding = <<FALSE, NoDetails>>
    /\ result = NoResult
    /\ others = << >>

\* the request ends with r
Finish(r) == pc' = "done" /\ result' = r

(***************************************************************************)
(* chat_endpoint                                                           *)
(***************************************************************************)
\* the input checks of chat_endpoint without the check of the selection
InputErrorNoSelectionCheck(req) ==
    IF Len(req.query) = 0 \/ Len(Strip(req.query)) = 0
    THEN HTTPException(400, MsgQueryEmpty)
    ELSE IF Len(req.query) > MaxQueryLength
    THEN HTTPException(400, MsgQueryTooLongA \o IntStr(MaxQueryLength) \o MsgCharacters)
    ELSE IF req.query_type \notin {"full_book", "selection_based"}
    THEN HTTPException(400, MsgInvalidType)
    ELSE NoResult

\* the input checks of chat_endpoint without the length limit
InputErrorNoLengthCheck(req) ==
    IF Len(req.query) = 0 \/ Len(Strip(req.query)) = 0
    THEN HTTPException(400, MsgQueryEmpty)
    ELSE IF req.query_type \notin {"full_book", "selection_based"}
    THEN HTTPException(400, MsgInvalidType)
    ELSE IF req.query_type = "selection_based" /\ Falsy(req.selected_text)
    THEN HTTPException(400, MsgSelectionRequired)
    ELSE NoResult

\* the input checks of chat_endpoint: the HTTPException raised, or NoResult
InputError(req) ==
    IF Len(req.query) = 0 \/ Len(Strip(req.query)) = 0
    THEN HTTPException(400, MsgQueryEmpty)
    ELSE IF Len(req.query) > MaxQueryLength
    THEN HTTPException(400, MsgQueryTooLongA \o IntStr(MaxQueryLength) \o MsgCharacters)
    ELSE IF req.query_type \notin {"full_book", "selection_based"}
    THEN HTTPException(400, MsgInvalidType)
    ELSE IF req.query_type = "selection_based" /\ Falsy(req.selected_text)
    THEN HTTPException(400, MsgSelectionRequired)
    ELSE NoResult

ChatEndpointValidate ==
    /\ pc = "received"
    /\ IF InputError(request) # NoResult
       THEN Finish(InputError(request))
       ELSE pc' = "construct" /\ UNCHANGED result
    /\ UNCHANGED <<others, entry, request, stages, backend, search_results, retrieved_chunks,
                   sufficiency, generated, response, confidence, grounding>>

\* what the caller of QueryService() gets when the constructor raises
ConstructorFailure(caller) ==
    IF caller = "endpoint" THEN HTTPException(500, MsgInternal) ELSE Propagated(DetailRefused)

\* QueryService(): RetrievalService.__init__ probes the collection (get_collection) and,
\* when the probe raises, creates it (create_collection): with the collection missing the
\* creation succeeds, with the backend down it raises and the constructor raises
ConstructQueryService ==
    /\ pc = "construct"
    /\ \E state \in {"exists", "missing", "down"} :
          /\ backend' = Append(backend, IF state = "down" THEN "down" ELSE "up")
          /\ IF state = "down"
             THEN Finish(ConstructorFailure(entry))
             ELSE pc' = "process" /\ UNCHANGED result
    /\ UNCHANGED <<others, entry, request, stages, search_results, retrieved_chunks, sufficiency,
                   generated, response, confidence, grounding>>

(***************************************************************************)
(* QueryService.process_query                                              *)
(***************************************************************************)
\* the start of _process_selection_query, up to the first remote call:
\* the refusal returned, or NoResult when the selection is admitted
SelectionRefusal(req) ==
    IF Falsy(req.selected_text)
    THEN QueryResponse(MsgNoSelectedText, "refused", << >>, Zero)
    ELSE LET checked == ValidateSelectionContext(req.query, req.selected_text)
         IN  IF ~checked[1]
             THEN QueryResponse(MsgSelectionNotEnough \o checked[2], "refused", << >>, Zero)
             ELSE NoResult

\* process_query treating every query type other than selection_based as full_book
ProcessQueryDefaultFullBook ==
    /\ pc = "process"
    /\ stages' = Append(stages, "process_query")
    /\ IF request.query_type = "selection_based"
       THEN IF SelectionRefusal(request) # NoResult
            THEN /\ Finish(SelectionRefusal(request))
                 /\ sufficiency' = IF Falsy(request.selected_text) THEN sufficiency
                                   ELSE ValidateSelectionContext(request.query,
                                                                 request.selected_text)
            ELSE /\ pc' = "embed"
                 /\ sufficiency' = ValidateSelectionContext(request.query,
                                                            request.selected_text)
                 /\ UNCHANGED result
       ELSE pc' = "embed" /\ UNCHANGED <<result, sufficiency>>
    /\ UNCHANGED <<others, entry, request, backend, search_results, retrieved_chunks, generated,
                   response, confidence, grounding>>

\* process_query branches on the query type and runs up to the first remote call
ProcessQuery ==
    /\ pc = "process"
    /\ stages' = Append(stages, "process_query")
    /\ IF request.query_type = "full_book"
       THEN pc' = "embed" /\ UNCHANGED <<result, sufficiency>>
       ELSE IF request.query_type = "selection_based"
       THEN IF SelectionRefusal(request) # NoResult
            THEN /\ Finish(SelectionRefusal(request))
                 /\ sufficiency' = IF Falsy(request.selected_text) THEN sufficiency
                                   ELSE ValidateSelectionContext(request.query,
                                                                 request.selected_text)
            ELSE /\ pc' = "embed"
                 /\ sufficiency' = ValidateSelectionContext(request.query,
                                                            request.selected_text)
                 /\ UNCHANGED result
       ELSE /\ Finish(ErrorResponse(MsgInvalidQueryType \o TypeText(request.query_type)))
            /\ UNCHANGED sufficiency
    /\ UNCHANGED <<others, entry, request, backend, search_results, retrieved_chunks, generated,
                   response, confidence, grounding>>

\* EmbeddingService.get_query_embedding, called by retrieve_relevant_chunks and by
\* retrieve_from_selected_text; an exception reaches the except branch of process_query
Embed ==
    /\ pc = "embed"
    /\ stages' = Append(stages, "embed")
    /\ \E ok \in BOOLEAN :
          IF ~ok
          THEN Finish(ErrorResponse(DetailModel)) /\ UNCHANGED retrieved_chunks
          ELSE IF request.query_type = "full_book"
          THEN pc' = "search" /\ UNCHANGED <<result, retrieved_chunks>>
          ELSE /\ pc' = "generate"
               /\ retrieved_chunks' = SelectionChunks(request.selected_text[1])
               /\ UNCHANGED result
    /\ UNCHANGED <<others, entry, request, backend, search_results, sufficiency, generated,
                   response, confidence, grounding>>

\* retrieve_relevant_chunks after the embedding: query_points, then the mapping loop;
\* when query_points raises, the evidence is empty
SearchIn(replies) ==
    /\ pc = "search"
    /\ stages' = Append(stages, "search")
    /\ \/ search_results' = << >> /\ retrieved_chunks' = << >>
          /\ backend' = Append(backend, "down")
       \/ \E points \in replies :
             /\ search_results' = points
             /\ retrieved_chunks' = MapHits(points)
             /\ backend' = Append(backend, "up")
    /\ pc' = "sufficiency"
    /\ UNCHANGED <<others, entry, request, sufficiency, generated, response, confidence, grounding,
                   result>>

\* a search whose reply is any ranked list of hits
Search == SearchIn(HitLists)

\* the refusal of _process_full_book_query
InsufficientResponse(reason) ==
    QueryResponse(MsgCannotAnswer \o reason, "refused", << >>, Zero)

\* the sufficiency check as an advisory step: generation follows whatever the verdict
CheckSufficiencyAdvisory ==
    /\ pc = "sufficiency"
    /\ stages' = Append(stages, "sufficiency")
    /\ sufficiency' = ValidateContextSufficiency(request.query, retrieved_chunks)
    /\ pc' = "generate"
    /\ UNCHANGED <<others, entry, request, backend, search_results, retrieved_chunks, generated,
                   response, confidence, grounding, result>>

\* _process_full_book_query: the sufficiency gate
CheckSufficiency ==
    /\ pc = "sufficiency"
    /\ stages' = Append(stages, "sufficiency")
    /\ sufficiency' = ValidateContextSufficiency(request.query, retrieved_chunks)
    /\ IF ~sufficiency'[1]
       THEN Finish(InsufficientResponse(sufficiency'[2]))
       ELSE pc' = "generate" /\ UNCHANGED result
    /\ UNCHANGED <<others, entry, request, backend, search_results, retrieved_chunks, generated,
                   response, confidence, grounding>>

\* _generate_response_with_context: one call of generate_content, then the confidence
Generate ==
    /\ pc = "generate"
    /\ stages' = Append(stages, "generate")
    /\ \E api_key \in ApiKeys, reply \in GeneratorReplies :
          /\ generated' = GenerateContent(api_key, reply)
          /\ response' = GenerateResponseWithContext(retrieved_chunks, generated')[1]
          /\ confidence' = GenerateResponseWithContext(retrieved_chunks, generated')[2]
    /\ pc' = "grounding"
    /\ UNCHANGED <<others, entry, request, backend, search_results, retrieved_chunks, sufficiency,
                   grounding, result>>

\* the end of _process_full_book_query with the grounding check as a hard gate
FullBookResultStrict(is_grounded, text, conf) ==
    IF ~is_grounded
    THEN QueryResponse(MsgNotGroundedBook, "refused", << >>, Zero)
    ELSE QueryResponse(text, "success", << >>, conf)

\* the end of _process_full_book_query with the confidence scored after the grounding
\* check and from its verdict
FullBookResultRescored(is_grounded, text, conf) ==
    QueryResponse(text, "success", << >>, IF is_grounded THEN conf ELSE Zero)

\* the end of _process_full_book_query, after the grounding check
FullBookResult(is_grounded, text, conf) == QueryResponse(text, "success", << >>, conf)

\* the end of _process_selection_query naming the selection as source on every outcome
SelectionResultSourced(is_grounded, text, conf) ==
    IF ~is_grounded
    THEN QueryResponse(MsgNotGroundedSelection, "refused", <<"user_selection">>, Zero)
    ELSE QueryResponse(text, "success", <<"user_selection">>, conf)

\* the end of _process_selection_query, after the grounding check
SelectionResult(is_grounded, text, conf) ==
    IF ~is_grounded
    THEN QueryResponse(MsgNotGroundedSelection, "refused", << >>, Zero)
    ELSE QueryResponse(text, "success", <<"user_selection">>, conf)

\* the grounding check as a step that consumes the evidence list it walks
ValidateGroundingConsuming ==
    /\ pc = "grounding"
    /\ stages' = Append(stages, "grounding")
    /\ grounding' = ValidateResponseGrounding(response, retrieved_chunks)
    /\ retrieved_chunks' = << >>
    /\ IF request.query_type = "full_book"
       THEN Finish(FullBookResult(grounding'[1], response, confidence))
       ELSE Finish(SelectionResult(grounding'[1], response, confidence))
    /\ UNCHANGED <<others, entry, request, backend, search_results, sufficiency, generated,
                   response, confidence>>

\* validate_response_grounding and the response built from its verdict
ValidateGrounding ==
    /\ pc = "grounding"
    /\ stages' = Append(stages, "grounding")
    /\ grounding' = ValidateResponseGrounding(response, retrieved_chunks)
    /\ IF request.query_type = "full_book"
       THEN Finish(FullBookResult(grounding'[1], response, confidence))
       ELSE Finish(SelectionResult(grounding'[1], response, confidence))
    /\ UNCHANGED <<others, entry, request, backend, search_results, retrieved_chunks, sufficiency,
                   generated, response, confidence>>

Next ==
    \/ ChatEndpointValidate
    \/ ConstructQueryService
    \/ ProcessQuery
    \/ Embed
    \/ Search
    \/ CheckSufficiency
    \/ Generate
    \/ ValidateGrounding

Spec == Init /\ [][Next]_vars

(***************************************************************************)
(* Concurrent requests: the event loop runs one request at a time and      *)
(* keeps the frames of the others                                          *)
(***************************************************************************)
\* the frame of the running request: the locals of chat_endpoint and of process_query,
\* and the QueryService chat_endpoint constructed for it
Frame ==
    [entry |-> entry, request |-> request, pc |-> pc, stages |-> stages,
     backend |-> backend, search_results |-> search_results,
     retrieved_chunks |-> retrieved_chunks, sufficiency |-> sufficiency,
     generated |-> generated, response |-> response, confidence |-> confidence,
     grounding |-> grounding, result |-> result]

\* the frame of a request that has not started
NewFrame(caller, req) ==
    [entry |-> caller, request |-> req,
     pc |-> IF caller = "endpoint" THEN "received" ELSE "construct",
     stages |-> << >>, backend |-> << >>, search_results |-> << >>,
     retrieved_chunks |-> << >>, sufficiency |-> <<FALSE, << >> >>,
     generated |-> Raised(<< >>), response |-> << >>, confidence |-> Zero,
     grounding |-> <<FALSE, NoDetails>>, result |-> NoResult]

\* a suspended request resumed with the evidence of the request that was running:
\* the evidence kept in one place for all requests
SuspendedSharingEvidence(k) == [others[k] EXCEPT !.retrieved_chunks = retrieved_chunks]

\* the frame a suspended request is resumed with
Suspended(k) == others[k]

\* the requests served concurrently
ConcurrentFrames ==
    {NewFrame("endpoint", Request(QueryRobot, "full_book", None)),
     NewFrame("endpoint", Request(QueryExplain, "selection_based", Some(ContentRobot))),
     NewFrame("endpoint", Request(QueryBlank, "full_book", None)),
     NewFrame("direct", Request(QueryRobot, "summary", None))}

\* the replies of the backend to the concurrent requests
ConcurrentHitLists ==
    {h \in HitLists : /\ Len(h) <= 1
                      /\ \A i \in 1..Len(h) : /\ h[i].score \in {34, 35, 90}
                                               /\ h[i].payload.chunk_id = "uuid-1"
                                               /\ h[i].payload.content = ContentLong}

ConcurrentInit ==
    \E first \in ConcurrentFrames, second \in ConcurrentFrames :
       /\ entry = first.entry
       /\ request = first.request
       /\ pc = first.pc
       /\ stages = first.stages
       /\ backend = first.backend
       /\ search_results = first.search_results
       /\ retrieved_chunks = first.retrieved_chunks
       /\ sufficiency = first.sufficiency
       /\ generated = first.generated
       /\ response = first.response
       /\ confidence = first.confidence
       /\ grounding = first.grounding
       /\ result = first.result
       /\ others = <<second>>

\* a search on behalf of one of the concurrent requests
ConcurrentSearch == SearchIn(ConcurrentHitLists)

\* the event loop suspends the running request and resumes one that has not returned
Switch ==
    \E k \in 1..Len(others) :
       /\ Suspended(k).pc # "done"
       /\ others' = [others EXCEPT ![k] = Frame]
       /\ entry' = Suspended(k).entry
       /\ request' = Suspended(k).request
       /\ pc' = Suspended(k).pc
       /\ stages' = Suspended(k).stages
       /\ backend' = Suspended(k).backend
       /\ search_results' = Suspended(k).search_results
       /\ retrieved_chunks' = Suspended(k).retrieved_chunks
       /\ sufficiency' = Suspended(k).sufficiency
       /\ generated' = Suspended(k).generated
       /\ response' = Suspended(k).response
       /\ confidence' = Suspended(k).confidence
       /\ grounding' = Suspended(k).grounding
       /\ result' = Suspended(k).result

ConcurrentNext ==
    \/ ChatEndpointValidate
    \/ ConstructQueryService
    \/ ProcessQuery
    \/ Embed
    \/ ConcurrentSearch
    \/ CheckSufficiency
    \/ Generate
    \/ ValidateGrounding
    \/ Switch

ConcurrentSpec == ConcurrentInit /\ [][ConcurrentNext]_vars

(***************************************************************************)
(* Properties                                                              *)
(***************************************************************************)
Done == pc = "done"

FullBook == request.query_type = "full_book"

SelectionBased == request.query_type = "selection_based"

\* process_query made the call named stage
Called(stage) == \E i \in 1..Len(stages) : stages[i] = stage

\* process_query returned a QueryResponse
Responded == Done /\ result.kind = "response"

\* the calls to the embedder, the similarity search and the generator
RemoteCalls == {i \in 1..Len(stages) : stages[i] \in {"embed", "search", "generate"}}

\* generate_content was called and raised
GenerationFailure == Called("generate") /\ ~generated.ok

\* generate_content was called and returned a text
GenerationSuccess == Called("generate") /\ generated.ok

\* a confidence equals min(1.0, average similarity of the chunks + 0.2)
IsBoostedAverage(conf, chunks) ==
    LET n == Len(chunks)
        boosted == SumSimilarity(chunks) + 20 * n
    IN  IF boosted >= 100 * n THEN conf.num = conf.den
        ELSE conf.num * 100 * n = boosted * conf.den

\* C1: in full_book mode, once validate_context_sufficiency has reported the evidence
\* insufficient, the request has ended with status refused and confidence 0 and
\* generate_content has not been and is never called.
C1_InsufficientRefusesWithoutGeneration ==
    (FullBook /\ Called("sufficiency") /\ ~sufficiency[1])
        => /\ Responded
           /\ result.status = "refused"
           /\ result.confidence = Zero
           /\ ~Called("generate")

C1_Witness ==
    /\ FullBook /\ Called("sufficiency") /\ ~sufficiency[1]
    /\ Len(retrieved_chunks) > 0
    /\ Responded /\ result.status = "refused"

\* C2 (as claimed): in both query modes a failed generate call ends the request with
\* status error, confidence 0 and a response text containing the failure detail.
C2_GenerationFailureIsError ==
    (Done /\ GenerationFailure)
        => /\ result.kind = "response"
           /\ result.status = "error"
           /\ result.confidence = Zero
           /\ Contains(result.response, generated.text)

\* C3 (as claimed): in every query mode, when generation succeeded and the grounding
\* check failed, the generated text is returned with status success.
C3_GroundingAdvisoryInEveryMode ==
    (Done /\ GenerationSuccess /\ Called("grounding") /\ ~grounding[1])
        => /\ result.kind = "response"
           /\ result.status = "success"
           /\ result.response = Strip(generated.text)

\* C3 (amended): when generation succeeded and the grounding check failed, a full_book
\* request still returns the generated text with status success, and a selection_based
\* request is refused with confidence 0.
C3_GroundingAdvisoryInFullBookOnly ==
    (Done /\ GenerationSuccess /\ Called("grounding") /\ ~grounding[1])
        => /\ result.kind = "response"
           /\ IF FullBook
              THEN result.status = "success" /\ result.response = Strip(generated.text)
              ELSE result.status = "refused" /\ result.confidence = Zero

C3_Witness ==
    /\ Done /\ FullBook /\ GenerationSuccess /\ Called("grounding") /\ ~grounding[1]
    /\ result.status = "success"
    /\ Len(result.response) > 0

\* C4 (as claimed): a full_book request during which the similarity-search backend was
\* down when contacted ends with empty evidence and a response with status refused,
\* no sources and confidence 0.
C4_BackendDownIsRefused ==
    (Done /\ FullBook /\ "down" \in Range(backend))
        => /\ retrieved_chunks = << >>
           /\ result.kind = "response"
           /\ result.status = "refused"
           /\ result.sources = << >>
           /\ result.confidence = Zero

\* C5 (as claimed): every selection_based request with an empty or absent selected_text
\* gets a response with status refused, with no remote call made (stated for the
\* requests served while the backend answers).
C5_EmptySelectionIsRefused ==
    (Done /\ SelectionBased /\ Falsy(request.selected_text) /\ "down" \notin Range(backend))
        => /\ result.kind = "response"
           /\ result.status = "refused"
           /\ RemoteCalls = {}

\* C5 (amended): process_query answers a selection_based request with an empty or
\* absent selected_text with status refused before any remote call; chat_endpoint
\* rejects such a request with HTTP 400 before process_query runs.
C5_EmptySelectionRefusedOrRejected ==
    (Done /\ SelectionBased /\ Falsy(request.selected_text))
        => /\ RemoteCalls = {}
           /\ Called("process_query")
                 => result.kind = "response" /\ result.status = "refused"
           /\ entry = "endpoint"
                 => result.kind = "http_error" /\ result.code = 400 /\ stages = << >>

C5_Witness ==
    /\ Done /\ SelectionBased /\ Falsy(request.selected_text)
    /\ Called("process_query")
    /\ result.status = "refused"

\* C6: a non-empty evidence sequence whose similarities are all below 0.35 is reported
\* insufficient, whatever the number of chunks and their content lengths.
C6_LowSimilarityInsufficient ==
    (/\ Called("sufficiency")
     /\ Len(retrieved_chunks) > 0
     /\ \A i \in 1..Len(retrieved_chunks) : retrieved_chunks[i].similarity_score < 35)
        => ~sufficiency[1]

C6_Witness ==
    /\ Called("sufficiency")
    /\ Len(retrieved_chunks) > 1
    /\ \A i \in 1..Len(retrieved_chunks) : retrieved_chunks[i].similarity_score < 35
    /\ \E i \in 1..Len(retrieved_chunks) : retrieved_chunks[i].similarity_score = 34
    /\ TotalContentLength(retrieved_chunks) >= 50
    /\ ~sufficiency[1]

\* C7: an evidence sequence whose summed content length is below 50 characters is
\* reported insufficient, even when every chunk has similarity 1.0.
C7_ShortContentInsufficient ==
    (Called("sufficiency") /\ TotalContentLength(retrieved_chunks) < 50)
        => ~sufficiency[1]

C7_Witness ==
    /\ Called("sufficiency")
    /\ Len(retrieved_chunks) > 1
    /\ \A i \in 1..Len(retrieved_chunks) : retrieved_chunks[i].similarity_score = 100
    /\ TotalContentLength(retrieved_chunks) = 49
    /\ ~sufficiency[1]

\* C8: a non-empty evidence sequence with a similarity of at least 0.35 and a summed
\* content length of at least 50 is reported sufficient.
C8_OtherwiseSufficient ==
    (/\ Called("sufficiency")
     /\ Len(retrieved_chunks) > 0
     /\ \E i \in 1..Len(retrieved_chunks) : retrieved_chunks[i].similarity_score >= 35
     /\ TotalContentLength(retrieved_chunks) >= 50)
        => sufficiency[1]

C8_Witness ==
    /\ Called("sufficiency")
    /\ \A i \in 1..Len(retrieved_chunks) : retrieved_chunks[i].similarity_score <= 35
    /\ \E i \in 1..Len(retrieved_chunks) : retrieved_chunks[i].similarity_score = 35
    /\ TotalContentLength(retrieved_chunks) = 50
    /\ sufficiency[1]

\* C9: the confidence of every response is in [0,1] when the similarities of the
\* evidence are in [0,1], whatever the status and the query mode.
C9_ConfidenceInUnitInterval ==
    (/\ Responded
     /\ \A i \in 1..Len(retrieved_chunks) :
           /\ retrieved_chunks[i].similarity_score >= 0
           /\ retrieved_chunks[i].similarity_score <= 100)
        => /\ result.confidence.den > 0
           /\ result.confidence.num >= 0
           /\ result.confidence.num <= result.confidence.den

C9_Witness ==
    /\ Responded /\ result.status = "success"
    /\ Len(retrieved_chunks) > 1
    /\ \A i \in 1..Len(retrieved_chunks) :
          /\ retrieved_chunks[i].similarity_score >= 0
          /\ retrieved_chunks[i].similarity_score <= 100
    /\ SumSimilarity(retrieved_chunks) + 20 * Len(retrieved_chunks)
          > 100 * Len(retrieved_chunks)
    /\ result.confidence.num = result.confidence.den

\* C10 (as claimed): every full_book request that ends with status success has
\* confidence min(1.0, average similarity of the chunks used + 0.2).
C10_SuccessConfidenceIsBoostedAverage ==
    (Responded /\ FullBook /\ result.status = "success")
        => IsBoostedAverage(result.confidence, retrieved_chunks)

NoSharedToken ==
    /\ SelectionBased /\ Called("process_query")
    /\ ~Falsy(request.selected_text)
    /\ NormalizeTokens(request.query) \cap NormalizeTokens(request.selected_text[1]) = {}

\* C12 (as claimed): a selection_based request whose non-empty selected_text shares no
\* token with the query is not refused and, when the generate call succeeded, ends
\* with status success.
C12_NoOverlapNeverRefused ==
    (Done /\ NoSharedToken)
        => /\ result.kind = "response"
           /\ result.status # "refused"
           /\ GenerationSuccess => result.status = "success"

\* C12 (amended): the token overlap never blocks a selection_based request: with no
\* shared token the selection is admitted exactly when it has at least 5 stripped
\* characters and then goes on to the embedder; the request is refused only for a
\* selection under 5 stripped characters or for a failed grounding check, and after a
\* successful generate call it ends with status success exactly when the generated
\* text is grounded in the selection.
C12_NoOverlapAdmitted ==
    (Done /\ NoSharedToken)
        => /\ result.kind = "response"
           /\ sufficiency[1] = (Len(Strip(request.selected_text[1])) >= 5)
           /\ sufficiency[1] => Called("embed")
           /\ result.status = "refused"
                 => \/ Len(Strip(request.selected_text[1])) < 5
                    \/ Called("grounding") /\ ~grounding[1]
           /\ GenerationSuccess => (result.status = "success" <=> grounding[1])

C12_Witness ==
    /\ Done /\ NoSharedToken
    /\ GenerationSuccess
    /\ grounding[1]
    /\ result.status = "success"

\* C13 (as claimed): the sources of a response are empty for a full_book request and
\* <<"user_selection">> for a selection_based request, on every outcome.
C13_SourcesFixedPerMode ==
    Responded
        => /\ FullBook => result.sources = << >>
           /\ SelectionBased => result.sources = <<"user_selection">>

\* C13 (amended): the sources of a response are empty for a full_book request on every
\* outcome; for a selection_based request they are <<"user_selection">> exactly when
\* the status is success, and empty when it is refused or error.
C13_SourcesSelectionOnSuccess ==
    Responded
        => /\ FullBook => result.sources = << >>
           /\ SelectionBased
                 => result.sources = IF result.status = "success"
                                     THEN <<"user_selection">> ELSE << >>

C13_Witness ==
    /\ Responded /\ SelectionBased
    /\ Called("grounding")
    /\ result.status = "refused"
    /\ result.sources = << >>

\* C14 (as claimed): every request that chat_endpoint accepted ends with a well-formed
\* response carrying a typed status, whatever failed while it was served; no failure of
\* the backend, the embedder or the generator reaches the caller as an HTTP 500.
C14_FailuresBecomeResponses ==
    (Done /\ entry = "endpoint" /\ Len(backend) > 0)
        => /\ result.kind = "response"
           /\ result.status \in {"success", "refused", "error"}

StagesLeft ==
    CASE pc = "process" -> 6
      [] pc = "embed" -> 5
      [] pc = "search" -> 4
      [] pc = "sufficiency" -> 3
      [] pc = "generate" -> 2
      [] pc = "grounding" -> 1
      [] OTHER -> 0

BadInput ==
    \/ \A i \in 1..Len(request.query) : request.query[i] \in WhiteSpace
    \/ Len(request.query) > MaxQueryLength
    \/ request.query_type \notin {"full_book", "selection_based"}
    \/ SelectionBased /\ Falsy(request.selected_text)

\* C16: once chat_endpoint has looked at a request with an empty or blank query, a
\* query above max_query_length, an unknown query_type or a selection_based query_type
\* without selected_text, the request has ended with HTTP 400, with no QueryService
\* constructed (the backend was not contacted) and no stage of process_query run.
C16_InputErrorsRejected ==
    (entry = "endpoint" /\ BadInput /\ pc # "received")
        => /\ Done
           /\ result.kind = "http_error"
           /\ result.code = 400
           /\ backend = << >>
           /\ stages = << >>

C16_Witness ==
    /\ entry = "endpoint" /\ Done
    /\ Len(request.query) > MaxQueryLength
    /\ request.query_type = "full_book"
    /\ result.kind = "http_error" /\ result.code = 400
    /\ Contains(result.response, IntStr(MaxQueryLength))

\* C17: a call of process_query with a query_type that is neither full_book nor
\* selection_based has returned, as its only step, a response with status error,
\* confidence 0 and no sources that names the rejected type; no embed, search or
\* generate call is made.
C17_InvalidTypeIsError ==
    (Called("process_query") /\ ~FullBook /\ ~SelectionBased)
        => /\ Responded
           /\ result.status = "error"
           /\ result.confidence = Zero
           /\ result.sources = << >>
           /\ Contains(result.response, TypeText(request.query_type))
           /\ stages = <<"process_query">>
           /\ RemoteCalls = {}

C17_Witness ==
    /\ entry = "direct"
    /\ request.query_type = "summary"
    /\ Called("process_query")
    /\ Responded /\ result.status = "error"

\* C18: the chunks retrieve_relevant_chunks returns are ordered by similarity_score,
\* highest first, for every ranked list of hits the backend returns (hits the mapping
\* loop drops included) and when the backend fails.
C18_ChunksOrderedBySimilarity ==
    Called("search")
        => \A i, j \in 1..Len(retrieved_chunks) :
              i < j => retrieved_chunks[i].similarity_score
                          >= retrieved_chunks[j].similarity_score

C18_Witness ==
    /\ Called("search")
    /\ Len(retrieved_chunks) = MaxHits
    /\ \A i \in 1..(Len(retrieved_chunks) - 1) :
          retrieved_chunks[i].similarity_score > retrieved_chunks[i + 1].similarity_score

\* C19: a selection_based request never issues a similarity search (the only contact
\* with the backend is the constructor's probe), and its evidence, empty until the
\* selection is embedded, is from then on exactly one chunk whose content is the
\* caller's selected_text, with similarity 1.0 and source_path "user_selection".
C19_SelectionEvidenceIsSynthetic ==
    SelectionBased
        => /\ ~Called("search")
           /\ search_results = << >>
           /\ Len(backend) <= 1
           /\ IF Called("generate")
              THEN /\ Len(retrieved_chunks) = 1
                   /\ retrieved_chunks[1].content = request.selected_text[1]
                   /\ retrieved_chunks[1].similarity_score = 100
                   /\ retrieved_chunks[1].source_path = "user_selection"
              ELSE retrieved_chunks = << >> \/ pc = "generate"

C19_Witness ==
    /\ SelectionBased /\ Done
    /\ Called("embed") /\ Called("grounding")
    /\ Len(retrieved_chunks) = 1
    /\ retrieved_chunks[1].content = SelRos
    /\ retrieved_chunks[1].source_path = "user_selection"

\* what a finished request returns when it runs alone and its collaborators reply as
\* frame f recorded: the backend (f.backend, f.search_results), the embedder (the call
\* ended at the embedding when it raised) and the generator (f.generated)
RunAlone(f) ==
    LET req == f.request
        chunks == IF req.query_type = "full_book" THEN MapHits(f.search_results)
                  ELSE SelectionChunks(req.selected_text[1])
        sufficient == ValidateContextSufficiency(req.query, chunks)
        answer == GenerateResponseWithContext(chunks, f.generated)
        grounded == ValidateResponseGrounding(answer[1], chunks)[1]
    IN  IF f.entry = "endpoint" /\ InputError(req) # NoResult THEN InputError(req)
        ELSE IF f.backend[1] = "down" THEN ConstructorFailure(f.entry)
        ELSE IF req.query_type \notin {"full_book", "selection_based"}
        THEN ErrorResponse(MsgInvalidQueryType \o TypeText(req.query_type))
        ELSE IF req.query_type = "selection_based" /\ SelectionRefusal(req) # NoResult
        THEN SelectionRefusal(req)
        ELSE IF f.stages[Len(f.stages)] = "embed" THEN ErrorResponse(DetailModel)
        ELSE IF req.query_type = "selection_based"
        THEN SelectionResult(grounded, answer[1], answer[2])
        ELSE IF ~sufficient[1] THEN InsufficientResponse(sufficient[2])
        ELSE FullBookResult(grounded, answer[1], answer[2])

\* C20: with two requests interleaved at every step, each request that has returned
\* returned what it returns when run alone with the replies its own collaborators
\* gave it, and no step of the running request changes the frame of a suspended one:
\* a step either leaves the suspended frames alone or swaps the running frame with
\* one of them unchanged.
C20_RequestsIndependent ==
    /\ [](\A f \in {Frame} \cup Range(others) : f.pc = "done" => f.result = RunAlone(f))
    /\ [][\/ others' = others
          \/ \E k \in 1..Len(others) :
                others' = [others EXCEPT ![k] = Frame] /\ Frame' = others[k]]_vars

C20_Witness ==
    /\ Len(others) = 1
    /\ Done /\ others[1].pc = "done"
    /\ FullBook /\ others[1].request = request
    /\ Called("grounding") /\ others[1].stages = stages
    /\ result.status = "success" /\ others[1].result.status = "success"
    /\ result.response # others[1].result.response
    /\ result.confidence # others[1].result.confidence

\* the place of a stage among the calls process_query made (0 when it was not made)
StageIndex(stage) ==
    IF Called(stage) THEN CHOOSE i \in 1..Len(stages) : stages[i] = stage ELSE 0

\* C21 (as claimed): the sufficiency check precedes the generation, the generation
\* precedes the grounding check, and the confidence is not computed before the grounding
\* check has run: until then it has the value it had when the request started.
C21_ScoringAfterGrounding ==
    /\ (FullBook /\ Called("generate"))
          => Called("sufficiency") /\ StageIndex("sufficiency") < StageIndex("generate")
    /\ Called("grounding")
          => Called("generate") /\ StageIndex("generate") < StageIndex("grounding")
    /\ ~Called("grounding") => confidence = Zero

\* C21 (amended): the sufficiency check precedes the generation and the generation
\* precedes the grounding check; the confidence is computed inside the generation
\* step, before the grounding check starts, and the grounding check leaves it as it
\* is: a successful response carries the confidence computed before the check.
C21_ScoringBeforeGrounding ==
    /\ (FullBook /\ Called("generate"))
          => Called("sufficiency") /\ StageIndex("sufficiency") < StageIndex("generate")
    /\ Called("grounding")
          => Called("generate") /\ StageIndex("generate") < StageIndex("grounding")
    /\ ~Called("generate") => confidence = Zero
    /\ Called("generate")
          => confidence = GenerateResponseWithContext(retrieved_chunks, generated)[2]
    /\ (Responded /\ result.status = "success") => result.confidence = confidence

C21_Witness ==
    /\ FullBook
    /\ pc = "grounding" /\ ~Called("grounding")
    /\ GenerationSuccess
    /\ confidence # Zero
    /\ confidence = BoostedConfidence(retrieved_chunks)

\* text starts with prefix
StartsWith(text, prefix) ==
    Len(text) >= Len(prefix) /\ SubSeq(text, 1, Len(prefix)) = prefix

\* the best similarity of the evidence is below 0.35
BestBelowThreshold ==
    /\ Len(retrieved_chunks) > 0
    /\ \A i \in 1..Len(retrieved_chunks) : retrieved_chunks[i].similarity_score < 35

\* C22: the sufficiency rules apply in the order empty, similarity, length and the
\* first that fails gives the reason: empty evidence is reported as no context
\* retrieved; non-empty evidence with best similarity below 0.35 is reported with the
\* similarity reason carrying that best similarity, whatever its length; the length
\* reason, carrying the total length, is given only when the similarity rule passed.
C22_FirstFailingRuleDecides ==
    Called("sufficiency")
        => /\ Len(retrieved_chunks) = 0 => sufficiency = <<FALSE, MsgNoContext>>
           /\ BestBelowThreshold
                 => /\ ~sufficiency[1]
                    /\ StartsWith(sufficiency[2], MsgNoHighSimilarity)
                    /\ \E i \in 1..Len(retrieved_chunks) :
                          /\ \A j \in 1..Len(retrieved_chunks) :
                                retrieved_chunks[j].similarity_score
                                   <= retrieved_chunks[i].similarity_score
                          /\ sufficiency[2] = MsgNoHighSimilarity
                                \o Fmt2f(retrieved_chunks[i].similarity_score) \o <<")">>
           /\ (Len(retrieved_chunks) > 0 /\ ~BestBelowThreshold
                  /\ TotalContentLength(retrieved_chunks) < 50)
                 => sufficiency = <<FALSE, MsgInsufficientLength
                                      \o IntStr(TotalContentLength(retrieved_chunks))
                                      \o MsgCharacters>>

C22_Witness ==
    /\ Called("sufficiency")
    /\ BestBelowThreshold
    /\ retrieved_chunks[1].similarity_score = 34
    /\ TotalContentLength(retrieved_chunks) < 50
    /\ StartsWith(sufficiency[2], MsgNoHighSimilarity)
    /\ Contains(sufficiency[2], <<"0", ".", "3", "4">>)

(***************************************************************************)
(* validate_response_grounding on its own: every response text of          *)
(* GroundingResponses is validated against every evidence sequence of      *)
(* GroundingEvidence.                                                      *)
(***************************************************************************)
ContentToday ==
    <<"T","o","d","a","y"," ","a"," ","r","o","b","o","t"," ","i","s"," ","a"," ","m","a","c",
      "h","i","n","e">>

ContentLetters ==
    <<"a"," ","b"," ","c"," ","d"," ","e"," ","f"," ","g">>

RespTwoMarkers ==
    <<"T","o","d","a","y"," ","a"," ","r","o","b","o","t"," ","i","s"," ","c","u","r","r","e",
      "n","t","l","y"," ","a"," ","m","a","c","h","i","n","e">>

RespSeven ==
    <<"a"," ","b"," ","c"," ","d"," ","e"," ","f"," ","g"," ","x"," ","y"," ","z">>

RespThree ==
    <<"a"," ","b"," ","c"," ","x"," ","y"," ","z"," ","u"," ","v"," ","w"," ","t">>

RespSix ==
    <<"a"," ","b"," ","c"," ","d"," ","e"," ","f"," ","x"," ","y"," ","z"," ","w">>

RespRepeated ==
    <<"t","o","d","a","y"," ","T","O","D","A","Y"," ","a"," ","r","o","b","o","t">>

\* evidence texts handed to the validator
GroundingContents == {ContentRobot, ContentToday, ContentLetters}

\* a retrieved chunk with the given content
GroundingChunk(content) ==
    [chunk_id |-> "uuid-1", document_id |-> "uuid-2", content |-> content,
     similarity_score |-> 90, source_path |-> "book.md", chunk_index |-> 0]

\* evidence sequences of up to two chunks, the empty one included
GroundingEvidence ==
    UNION { [1..n -> {GroundingChunk(c) : c \in GroundingContents}] : n \in 0..2 }

\* response texts handed to the validator
GroundingResponses ==
    {RespGrounded, RespMarker, RespTwoMarkers, RespRepeated, RespUnrelated, RespBlank,
     << >>, RespSeven, RespThree, RespSix}

\* a validator is given a response and its evidence
GroundingInit ==
    /\ entry = "direct"
    /\ request = Request(QueryRobot, "full_book", None)
    /\ pc = "grounding"
    /\ stages = << >>
    /\ backend = << >>
    /\ search_results = << >>
    /\ retrieved_chunks \in GroundingEvidence
    /\ sufficiency = <<FALSE, << >> >>
    /\ generated = Raised(<< >>)
    /\ response \in GroundingResponses
    /\ confidence = Zero
    /\ grounding = <<FALSE, NoDetails>>
    /\ result = NoResult
    /\ others = << >>

\* the call validate_response_grounding(response, retrieved_chunks)
CallValidateResponseGrounding ==
    /\ pc = "grounding"
    /\ grounding' = ValidateResponseGrounding(response, retrieved_chunks)
    /\ pc' = "validated"
    /\ UNCHANGED <<others, entry, request, stages, backend, search_results, retrieved_chunks,
                   sufficiency, generated, response, confidence, result>>

GroundingNext == CallValidateResponseGrounding

GroundingSpec == GroundingInit /\ [][GroundingNext]_vars

\* the validator has returned
Validated == pc = "validated"

\* the report of the validator
Report == grounding[2]

\* the markers of external knowledge occurring in the lower-cased response
MarkersFound ==
    {i \in 1..Len(Indicators) : Contains(Lower(response), Indicators[i][1])}

\* a >= h/100
AtLeast(a, h) == a.num * 100 >= h * a.den

\* C23 as stated: validate_response_grounding passes if and only if the evidence is
\* non-empty, the overlap ratio is at least 0.3 and the grounding score is at least 0.7;
\* the presence of a marker does not change the verdict.
C23_PassIffThresholds ==
    Validated =>
        (grounding[1] <=> /\ Len(retrieved_chunks) > 0
                          /\ AtLeast(Report.content_overlap, 30)
                          /\ AtLeast(Report.grounding_score, 70))

\* C23 amended: validate_response_grounding passes if and only if the evidence is
\* non-empty, no marker of external knowledge occurs in the response, the overlap ratio is
\* at least 0.3 and the grounding score is at least 0.7; the verdict is the report's
\* validation_passed.
C23_PassIffThresholdsAndNoMarker ==
    Validated =>
        /\ grounding[1] <=> /\ Len(retrieved_chunks) > 0
                            /\ MarkersFound = {}
                            /\ AtLeast(Report.content_overlap, 30)
                            /\ AtLeast(Report.grounding_score, 70)
        /\ Report.validation_passed = grounding[1]

\* C23 witness: a response all of whose words occur in the evidence and that holds exactly
\* one marker has overlap 1.0 and score 0.7, and is not accepted
C23_Witness ==
    /\ Validated
    /\ Len(retrieved_chunks) > 0
    /\ Cardinality(MarkersFound) = 1
    /\ Report.content_overlap.num = Report.content_overlap.den
    /\ Report.grounding_score.num * 10 = 7 * Report.grounding_score.den
    /\ ~grounding[1]

\* the words of the evidence
EvidenceWords ==
    UNION {WordSet(Lower(retrieved_chunks[i].content)) : i \in 1..Len(retrieved_chunks)}

\* the issue recorded for the marker Indicators[i]
MarkerIssue(i) == Indicators[i][2] \o <<":", " ", "'">> \o Indicators[i][1] \o <<"'">>

\* 0 <= a <= 1
InUnitInterval(a) == a.den > 0 /\ 0 <= a.num /\ a.num <= a.den

\* C24: for every response and non-empty evidence, the overlap ratio is the share of the
\* response's words that occur in the evidence (0 for a response without words), the
\* grounding score is max(0, overlap - 0.3 * markers found), both lie in [0,1], and each
\* marker found is recorded exactly once in the report's issues.
C24_OverlapAndScore ==
    (Validated /\ Len(retrieved_chunks) > 0) =>
        LET words == WordSet(Lower(response))
            ov == Report.content_overlap
            sc == Report.grounding_score
            n == Cardinality(MarkersFound)
            raw == 10 * ov.num - 3 * n * ov.den
        IN  /\ InUnitInterval(ov) /\ InUnitInterval(sc)
            /\ words = {} => ov.num = 0
            /\ words # {} =>
                   ov.num * Cardinality(words) = Cardinality(words \cap EvidenceWords) * ov.den
            /\ sc.num * 10 * ov.den = (IF raw < 0 THEN 0 ELSE raw) * sc.den
            /\ Len(Report.external_indicators) = n
            /\ \A i \in 1..Len(Indicators) :
                   Cardinality({k \in 1..Len(Report.issues) : Report.issues[k] = MarkerIssue(i)})
                       = (IF i \in MarkersFound THEN 1 ELSE 0)

\* C24 witness: a response with two markers, one of them occurring twice, whose penalty
\* exceeds its overlap, so that the score is floored at 0
C24_Witness ==
    /\ Validated
    /\ Len(retrieved_chunks) > 0
    /\ Cardinality(MarkersFound) = 2
    /\ Report.content_overlap.num > 0
    /\ 10 * Report.content_overlap.num < 6 * Report.content_overlap.den
    /\ Report.grounding_score.num = 0
    /\ Len(Report.external_indicators) = 2

\* the mapping loop can build a chunk for the hit: its chunk_id is missing or is a UUID
Mappable(hit) ==
    \/ "chunk_id" \notin DOMAIN hit.payload
    \/ hit.payload.chunk_id = ""
    \/ IsUuid(hit.payload.chunk_id)

\* C25: a hit of the backend's reply that cannot be mapped is dropped without failing the
\* call: the chunks returned are those of all the other hits, in the backend's order, and
\* retrieve_relevant_chunks returns to its caller, which goes on to the sufficiency check.
C25_UnmappableHitDropped ==
    Called("search") =>
        LET kept == SelectSeq(search_results, Mappable)
        IN  /\ Len(retrieved_chunks) = Len(kept)
            /\ \A i \in 1..Len(kept) :
                  /\ retrieved_chunks[i].chunk_id = kept[i].payload.chunk_id
                  /\ retrieved_chunks[i].content = kept[i].payload.content
                  /\ retrieved_chunks[i].similarity_score = kept[i].score
            /\ pc = "sufficiency" \/ Called("sufficiency")

\* C25 witness: the reply holds a hit that cannot be mapped before one that can, and the
\* latter is returned
C25_Witness ==
    /\ Called("search")
    /\ \E i, j \in 1..Len(search_results) :
          /\ i < j
          /\ ~Mappable(search_results[i])
          /\ Mappable(search_results[j])
    /\ Len(retrieved_chunks) >= 1
    /\ retrieved_chunks[1].chunk_id = "uuid-1"

(***************************************************************************)
(* The mapping loop on payloads with missing or malformed fields: two      *)
(* requests with the same query, each searching on its own                 *)
(***************************************************************************)
\* the payloads of the hits: complete, and with missing or malformed fields
MappingPayloads ==
    {[chunk_id |-> "uuid-1", document_id |-> "uuid-2", content |-> ContentRobot,
      source_path |-> "book.md", chunk_index |-> 0],
     [document_id |-> "uuid-2", content |-> ContentRobot, source_path |-> "book.md",
      chunk_index |-> 0],
     [chunk_id |-> "", document_id |-> "uuid-2", content |-> ContentRobot,
      source_path |-> "book.md", chunk_index |-> 0],
     [chunk_id |-> "not-a-uuid", document_id |-> "uuid-2", content |-> ContentRobot,
      source_path |-> "book.md", chunk_index |-> 0],
     [chunk_id |-> "uuid-1", content |-> ContentRobot, source_path |-> "book.md",
      chunk_index |-> 0],
     [chunk_id |-> "uuid-1", document_id |-> "physical_ai_course", content |-> ContentRobot,
      source_path |-> "book.md", chunk_index |-> 0],
     [chunk_id |-> "uuid-1", document_id |-> "uuid-2"]}

\* replies of one hit, with the values uuid.uuid4() returns while it is mapped
MappingHitLists ==
    {<<[score |-> 90, payload |-> p, uuid4 |-> <<c, d>>]>> :
        p \in MappingPayloads, c \in Uuid4Values, d \in Uuid4Values}

MappingInit ==
    LET first == NewFrame("endpoint", Request(QueryRobot, "full_book", None))
    IN  /\ entry = first.entry
        /\ request = first.request
        /\ pc = first.pc
        /\ stages = first.stages
        /\ backend = first.backend
        /\ search_results = first.search_results
        /\ retrieved_chunks = first.retrieved_chunks
        /\ sufficiency = first.sufficiency
        /\ generated = first.generated
        /\ response = first.response
        /\ confidence = first.confidence
        /\ grounding = first.grounding
        /\ result = first.result
        /\ others = <<first>>

\* a search whose reply is one of MappingHitLists
MappingSearch == SearchIn(MappingHitLists)

\* the two requests up to the return of retrieve_relevant_chunks
MappingNext ==
    \/ ChatEndpointValidate
    \/ ConstructQueryService
    \/ ProcessQuery
    \/ Embed
    \/ MappingSearch
    \/ Switch

MappingSpec == MappingInit /\ [][MappingNext]_vars

\* the requests whose search returned a hit
Searched == {f \in {Frame} \cup Range(others) : Len(f.search_results) = 1}

\* payload.get(key, default) of the hit of f
PayloadOr(f, key, default) ==
    IF key \in DOMAIN f.search_results[1].payload
    THEN f.search_results[1].payload[key] ELSE default

\* C26: a hit whose payload has a missing or malformed chunk_id or document_id, or lacks
\* content, source_path or chunk_index, is mapped to a chunk with defaulted fields, and
\* mapping the same hit twice gives the same chunk_id and document_id.
C26_MappedDeterministically ==
    /\ \A f \in Searched :
          /\ Len(f.retrieved_chunks) = 1
          /\ f.retrieved_chunks[1].content = PayloadOr(f, "content", << >>)
          /\ f.retrieved_chunks[1].source_path = PayloadOr(f, "source_path", "")
          /\ f.retrieved_chunks[1].chunk_index = PayloadOr(f, "chunk_index", 0)
          /\ f.retrieved_chunks[1].similarity_score = f.search_results[1].score
    /\ \A f, g \in Searched :
          (/\ f.search_results[1].payload = g.search_results[1].payload
           /\ f.search_results[1].score = g.search_results[1].score
           /\ Len(f.retrieved_chunks) = 1
           /\ Len(g.retrieved_chunks) = 1)
             => /\ f.retrieved_chunks[1].chunk_id = g.retrieved_chunks[1].chunk_id
                /\ f.retrieved_chunks[1].document_id = g.retrieved_chunks[1].document_id

\* the embedding call of process_query raised: the request ended right after it
EmbedFailure == Done /\ Len(stages) > 0 /\ stages[Len(stages)] = "embed"

\* C27 (as claimed): within one request the embed, search and generate calls are each
\* made at most once, and a failed embed or generate call ends the request with status
\* error.
C27_NoRetryFailureIsError ==
    /\ \A call \in {"embed", "search", "generate"} :
          Cardinality({i \in 1..Len(stages) : stages[i] = call}) <= 1
    /\ (Done /\ (EmbedFailure \/ GenerationFailure))
          => Responded /\ result.status = "error"

\* C28 (as claimed): every response with status refused or error has confidence 0 and no
\* sources, and every response with status success carries the text returned by a
\* generate call of the same request that completed successfully.
C28_SuccessCarriesGeneratedText ==
    Responded =>
        /\ result.status \in {"refused", "error"}
              => result.confidence = Zero /\ result.sources = << >>
        /\ result.status = "success"
              => GenerationSuccess /\ result.response = Strip(generated.text)

\* C29: in selection_based mode the sufficiency check refuses exactly when the selected
\* text has fewer than 5 characters after stripping: the request then ends with status
\* refused and neither the embedder nor the generator is called; a selected text of 5 or
\* more stripped characters is admitted and handed to the embedder whatever the share of
\* the query's tokens it holds, also when the query has no word token.
C29_SelectionRefusedIffShort ==
    (SelectionBased /\ Called("process_query")) =>
        LET sel == request.selected_text
            short == Falsy(sel) \/ Len(Strip(sel[1])) < 5
        IN  /\ short => /\ Responded
                        /\ result.status = "refused"
                        /\ ~Called("embed")
                        /\ ~Called("generate")
            /\ ~short => /\ sufficiency[1]
                         /\ pc = "embed" \/ Called("embed")
            /\ ~Falsy(sel) => (sufficiency[1] <=> ~short)

\* C29 witness: a query without word tokens on a selection of 5 or more characters is
\* admitted and reaches the generator
C29_Witness ==
    /\ SelectionBased
    /\ NormalizeTokens(request.query) = {}
    /\ Len(Strip(request.selected_text[1])) >= 5
    /\ sufficiency[1]
    /\ Called("embed") /\ Called("generate")
    /\ Done

(***************************************************************************)
(* GET /health.  health_check has no await: each request runs from its     *)
(* start to its response in one step.  In this specification others keeps  *)
(* the frames of the requests already answered.                            *)
(***************************************************************************)
\* the overall status health_check derives from its checks map: the generator expression
\* filters the values of the map, not its keys
OverallStatus(checks) ==
    IF \A k \in {key \in DOMAIN checks : checks[key] # "api"} : checks[k] = "ok"
    THEN "healthy" ELSE "degraded"

\* the body health_check returns (timestamp and response time left out)
HealthResponse(checks) ==
    [kind |-> "response", code |-> 200, status |-> OverallStatus(checks), checks |-> checks]

HealthInit ==
    /\ entry = "endpoint"
    /\ request = [path |-> "/health"]
    /\ pc = "received"
    /\ stages = << >>
    /\ backend = << >>
    /\ search_results = << >>
    /\ retrieved_chunks = << >>
    /\ sufficiency = <<FALSE, << >> >>
    /\ generated = Raised(<< >>)
    /\ response = << >>
    /\ confidence = Zero
    /\ grounding = <<FALSE, NoDetails>>
    /\ result = NoResult
    /\ others = << >>

\* health_check: the database probe, the vector-store probe, the overall status
HealthCheck ==
    /\ pc = "received"
    /\ \E database_up \in BOOLEAN, vector_store_up \in BOOLEAN :
          LET checks == [database |-> IF database_up THEN "ok" ELSE "error",
                         vector_store |-> IF vector_store_up THEN "ok" ELSE "error",
                         api |-> "healthy"]
          IN  /\ backend' = << IF database_up THEN "up" ELSE "down",
                               IF vector_store_up THEN "up" ELSE "down" >>
              /\ Finish(HealthResponse(checks))
    /\ stages' = Append(stages, "health_check")
    /\ UNCHANGED <<others, entry, request, search_results, retrieved_chunks, sufficiency,
                   generated, response, confidence, grounding>>

\* the next GET /health arrives after the previous one was answered
NextHealthRequest ==
    /\ pc = "done"
    /\ Len(others) + 1 < MaxHealthRequests
    /\ others' = Append(others, Frame)
    /\ pc' = "received"
    /\ stages' = << >>
    /\ backend' = << >>
    /\ result' = NoResult
    /\ UNCHANGED <<entry, request, search_results, retrieved_chunks, sufficiency, generated,
                   response, confidence, grounding>>

HealthNext ==
    \/ HealthCheck
    \/ NextHealthRequest

HealthSpec == HealthInit /\ [][HealthNext]_vars

\* the health responses given so far
HealthResponses ==
    {f.result : f \in {g \in {Frame} \cup Range(others) : g.pc = "done"}}

\* C30 (as claimed): health_check reports "healthy" exactly when the database check and
\* the vector-store check are both "ok", and "degraded" when at least one of them is
\* "error"; the api entry of the checks map has no influence.
C30_HealthyIffBothOk ==
    \A r \in HealthResponses :
       /\ r.status = "healthy" <=> (r.checks.database = "ok" /\ r.checks.vector_store = "ok")
       /\ r.status = "degraded"
             <=> (r.checks.database = "error" \/ r.checks.vector_store = "error")

====
